---- MODULE Spec2Model ----
(***************************************************************************)
(* Model of letta/services/block_manager.py (BlockManager): the block      *)
(* history engine (checkpoint_block, undo_checkpoint_block,                *)
(* redo_checkpoint_block, bulk_update_block_values_async, update_block)    *)
(* and the cursor pager (get_blocks_async).                                *)
(*                                                                         *)
(* Spec      one caller: every manager call is one transaction, one step.  *)
(* SpecTx    concurrent callers: the statements of the transactions        *)
(*           interleave, the store checks the row version on flush.        *)
(* SpecPage  a caller pages through get_blocks_async with after cursors.   *)
(***************************************************************************)
EXTENDS Naturals, Integers, Sequences, FiniteSets, TLC

VARIABLES
    blocks,            \* Block rows by id
    history,           \* BlockHistory rows by id
    next_history_id,   \* the next BlockHistory id
    blocks_agents,     \* BlocksAgents rows: <<block_id, agent_id>>
    identities_blocks, \* rows of the block-identity relation: <<block_id, identity_id>>
    database_engine,   \* settings.database_engine
    last,              \* Spec: the last call and its outcome
    txs,               \* SpecTx: the sessions, in the order they were opened
    pager              \* SpecPage: the caller of get_blocks_async

vars == <<blocks, history, next_history_id, blocks_agents, identities_blocks,
          database_engine, last, txs, pager>>

(* ---------------------------------------------------------------------- *)
(* Bounds                                                                  *)
(* ---------------------------------------------------------------------- *)
\* number of BlockHistory ids the store hands out
MaxHistoryIds == 3
\* cap of the row version counter of a block
MaxVersion == 6
\* number of sessions opened in SpecTx
MaxTxs == 2
\* the largest sequence number of a checkpoint in SpecNav
MaxSeq == 4
\* the latest creation timestamp of a block, in ticks
MaxTick == 2
\* ticks of the timestamp in one second
TicksPerSecond == 2
\* the largest page limit of a call
MaxLimit == 2

(* ---------------------------------------------------------------------- *)
(* Values                                                                  *)
(* ---------------------------------------------------------------------- *)
None == "None"

LETTA_USER == "user"
LETTA_AGENT == "letta_agent"

\* the acting user (actor.id, actor.organization_id)
Actor == [id |-> "user-1", organization_id |-> "org-1"]
AgentIds == {None, "agent-1"}

\* the strings a block value is drawn from
Values == {<<>>, <<"a">>, <<"a", "b">>, <<"b", "a">>}

Descriptions == {<<"d">>, <<"D", "b">>}
Labels == {<<"a">>, <<"A", "b">>}
Metadatas == {"m0", "m1"}
Limits == {1, 2}

\* block ids in their string order
AllBlockIds == <<"block-1", "block-2", "block-3">>

\* the fields a BlockHistory row copies from the block
SnapshotFields == {"description", "label", "value", "limit", "metadata_"}

(* ---------------------------------------------------------------------- *)
(* Errors raised by the manager                                            *)
(* ---------------------------------------------------------------------- *)
OK == [exc |-> "none", msg |-> "ok"]
ErrNoHistoryUndo == [exc |-> "ValueError", msg |-> "has no history entry - cannot undo"]
ErrNoHistoryRedo == [exc |-> "ValueError", msg |-> "has no history entry - cannot redo"]
ErrEarliest == [exc |-> "ValueError", msg |-> "already at the earliest checkpoint"]
ErrHighest == [exc |-> "ValueError", msg |-> "at the highest checkpoint"]
ErrHistoryRowNotFound == [exc |-> "NoResultFound", msg |-> "BlockHistory row not found"]
ErrTargetNotFound == [exc |-> "NoResultFound", msg |-> "No BlockHistory row found at sequence"]
ErrMultipleRows == [exc |-> "MultipleResultsFound", msg |-> "one_or_none found several rows"]
ErrBlockNotFound == [exc |-> "NoResultFound", msg |-> "Block not found"]
ErrStale == [exc |-> "StaleDataError", msg |-> "row version mismatch"]

(* ---------------------------------------------------------------------- *)
(* The store: rows of Block and BlockHistory                               *)
(* ---------------------------------------------------------------------- *)
Range(s) == {s[i] : i \in DOMAIN s}

\* an unset current_history_entry_id
NoEntry == 0

\* the tables and the setting only the listing reads
listing == <<blocks_agents, identities_blocks, database_engine>>

POSTGRES == "postgres"
SQLITE == "sqlite"

\* a Block row as the manager creates it: no checkpoint, version 1
NewBlock(created_at) ==
    [description |-> <<"d">>, label |-> <<"a">>, value |-> <<"a">>, limit |-> 2,
     metadata_ |-> "m0", current_history_entry_id |-> NoEntry, version |-> 1,
     created_at |-> created_at, organization_id |-> Actor.organization_id,
     is_template |-> FALSE, template_name |-> None, project_id |-> None]

\* f with key k set to v
Put(f, k, v) == [x \in DOMAIN f \cup {k} |-> IF x = k THEN v ELSE f[x]]

\* f without the keys of S
Without(f, S) == [x \in DOMAIN f \ S |-> f[x]]

\* the first of the order taken for the last
SetMaxLowest(S) ==
    CHOOSE x \in S : \A y \in S : x <= y

\* the first row of a query ordered descending, and of one ordered ascending
SetMax(S) ==
    CHOOSE x \in S : \A y \in S : y <= x
SetMin(S) ==
    CHOOSE x \in S : \A y \in S : x <= y

\* block.update(db_session, actor, no_commit=True): the flushed row carries
\* the next version
orm_update(block) == [block EXCEPT !.version = @ + 1]

\* the ids of the BlockHistory rows of one block
EntriesOf(hist, block_id) == {h \in DOMAIN hist : hist[h].block_id = block_id}

(* ---------------------------------------------------------------------- *)
(* checkpoint_block                                                        *)
(* ---------------------------------------------------------------------- *)
\* the current checkpoint never looked up
CurrentSeqZero(hist, block) == 0

\* step 2: the sequence number of the block's current checkpoint, 0 if none
CurrentSeq(hist, block) ==
    IF block.current_history_entry_id # NoEntry
          /\ block.current_history_entry_id \in DOMAIN hist
    THEN hist[block.current_history_entry_id].sequence_number
    ELSE 0

\* the truncation left out
FutureEntriesKept(hist, block_id, current_seq) == {}

\* the truncation without the filter on block_id
FutureEntriesAnyBlock(hist, block_id, current_seq) ==
    {h \in DOMAIN hist : hist[h].sequence_number > current_seq}

\* step 3: the rows the truncation deletes
FutureEntries(hist, block_id, current_seq) ==
    {h \in DOMAIN hist : hist[h].block_id = block_id
                          /\ hist[h].sequence_number > current_seq}

\* the row with the user as its actor_id whoever took the checkpoint
HistoryEntryByUser(block_id, block, next_seq, actor, agent_id) ==
    [organization_id |-> actor.organization_id,
     block_id |-> block_id,
     sequence_number |-> next_seq,
     description |-> block.description,
     label |-> block.label,
     value |-> block.value,
     limit |-> block.limit,
     metadata_ |-> block.metadata_,
     actor_type |-> IF agent_id # None THEN LETTA_AGENT ELSE LETTA_USER,
     actor_id |-> actor.id]

\* step 5: the new BlockHistory row
HistoryEntry(block_id, block, next_seq, actor, agent_id) ==
    [organization_id |-> actor.organization_id,
     block_id |-> block_id,
     sequence_number |-> next_seq,
     description |-> block.description,
     label |-> block.label,
     value |-> block.value,
     limit |-> block.limit,
     metadata_ |-> block.metadata_,
     actor_type |-> IF agent_id # None THEN LETTA_AGENT ELSE LETTA_USER,
     actor_id |-> IF agent_id # None THEN agent_id ELSE actor.id]

\* steps 2-7 on the rows the session sees: the table and the block after
\* the flush, before the commit
CheckpointWrites(hist, block_id, block, new_id, actor, agent_id) ==
    LET current_seq == CurrentSeq(hist, block)
        kept == Without(hist, FutureEntries(hist, block_id, current_seq))
        next_seq == current_seq + 1
        history_entry == HistoryEntry(block_id, block, next_seq, actor, agent_id)
    IN [history |-> Put(kept, new_id, history_entry),
        block |-> orm_update([block EXCEPT !.current_history_entry_id = new_id])]

(* ---------------------------------------------------------------------- *)
(* _move_block_to_sequence, undo_checkpoint_block, redo_checkpoint_block   *)
(* ---------------------------------------------------------------------- *)
\* the copy without the limit
move_block_to_sequence_keeps_limit(hist, block_id, block, target_seq) ==
    LET targets == {h \in DOMAIN hist : hist[h].block_id = block_id
                                         /\ hist[h].sequence_number = target_seq}
    IN IF targets = {}
       THEN [result |-> ErrTargetNotFound, block |-> block]
       ELSE LET id == CHOOSE h \in targets : TRUE
                target_entry == hist[id]
            IN [result |-> OK,
                block |-> orm_update(
                    [block EXCEPT !.description = target_entry.description,
                                  !.label = target_entry.label,
                                  !.value = target_entry.value,
                                  !.metadata_ = target_entry.metadata_,
                                  !.current_history_entry_id = id])]

\* copy the row at target_seq onto the block and flush it
move_block_to_sequence(hist, block_id, block, target_seq) ==
    LET targets == {h \in DOMAIN hist : hist[h].block_id = block_id
                                         /\ hist[h].sequence_number = target_seq}
    IN IF targets = {}
       THEN [result |-> ErrTargetNotFound, block |-> block]
       ELSE IF Cardinality(targets) > 1
       THEN [result |-> ErrMultipleRows, block |-> block]
       ELSE LET id == CHOOSE h \in targets : TRUE
                target_entry == hist[id]
            IN [result |-> OK,
                block |-> orm_update(
                    [block EXCEPT !.description = target_entry.description,
                                  !.label = target_entry.label,
                                  !.value = target_entry.value,
                                  !.limit = target_entry.limit,
                                  !.metadata_ = target_entry.metadata_,
                                  !.current_history_entry_id = id])]

\* the comparison off by one
EarlierSeqsInclusive(hist, block_id, current_seq) ==
    {hist[h].sequence_number : h \in {x \in EntriesOf(hist, block_id) :
                                         hist[x].sequence_number <= current_seq}}

\* the sequence numbers below current_seq that the block still has
EarlierSeqs(hist, block_id, current_seq) ==
    {hist[h].sequence_number : h \in {x \in EntriesOf(hist, block_id) :
                                         hist[x].sequence_number < current_seq}}
\* the comparison off by one
LaterSeqsInclusive(hist, block_id, current_seq) ==
    {hist[h].sequence_number : h \in {x \in EntriesOf(hist, block_id) :
                                         hist[x].sequence_number >= current_seq}}

\* the sequence numbers above current_seq that the block still has
LaterSeqs(hist, block_id, current_seq) ==
    {hist[h].sequence_number : h \in {x \in EntriesOf(hist, block_id) :
                                         hist[x].sequence_number > current_seq}}

\* undo without the test of current_history_entry_id
UndoTargetUnchecked(hist, block_id, block) ==
    IF block.current_history_entry_id \notin DOMAIN hist
    THEN [result |-> ErrHistoryRowNotFound, target_seq |-> 0]
    ELSE LET current_seq == hist[block.current_history_entry_id].sequence_number
             earlier == EarlierSeqs(hist, block_id, current_seq)
         IN IF earlier = {}
            THEN [result |-> ErrEarliest, target_seq |-> 0]
            ELSE [result |-> OK, target_seq |-> SetMax(earlier)]

\* undo, steps 1-2: the error raised, or OK and previous_entry.sequence_number
UndoTarget(hist, block_id, block) ==
    IF block.current_history_entry_id = NoEntry
    THEN [result |-> ErrNoHistoryUndo, target_seq |-> 0]
    ELSE IF block.current_history_entry_id \notin DOMAIN hist
    THEN [result |-> ErrHistoryRowNotFound, target_seq |-> 0]
    ELSE LET current_seq == hist[block.current_history_entry_id].sequence_number
             earlier == EarlierSeqs(hist, block_id, current_seq)
         IN IF earlier = {}
            THEN [result |-> ErrEarliest, target_seq |-> 0]
            ELSE [result |-> OK, target_seq |-> SetMax(earlier)]

\* redo up to the move: the error raised, or OK and next_entry.sequence_number
RedoTarget(hist, block_id, block) ==
    IF block.current_history_entry_id = NoEntry
    THEN [result |-> ErrNoHistoryRedo, target_seq |-> 0]
    ELSE IF block.current_history_entry_id \notin DOMAIN hist
    THEN [result |-> ErrHistoryRowNotFound, target_seq |-> 0]
    ELSE LET current_seq == hist[block.current_history_entry_id].sequence_number
             later == LaterSeqs(hist, block_id, current_seq)
         IN IF later = {}
            THEN [result |-> ErrHighest, target_seq |-> 0]
            ELSE [result |-> OK, target_seq |-> SetMin(later)]

\* undo up to the flush: the error raised, or OK and the moved block
UndoWrites(hist, block_id, block) ==
    LET t == UndoTarget(hist, block_id, block)
    IN IF t.result = OK
       THEN move_block_to_sequence(hist, block_id, block, t.target_seq)
       ELSE [result |-> t.result, block |-> block]

\* redo up to the flush
RedoWrites(hist, block_id, block) ==
    LET t == RedoTarget(hist, block_id, block)
    IN IF t.result = OK
       THEN move_block_to_sequence(hist, block_id, block, t.target_seq)
       ELSE [result |-> t.result, block |-> block]

(* ---------------------------------------------------------------------- *)
(* update_block, bulk_update_block_values_async                            *)
(* ---------------------------------------------------------------------- *)
\* setattr(block, key, value) for every key of the update, then the flush
UpdateWrites(block, block_update) ==
    orm_update([f \in DOMAIN block |->
                   IF f \in DOMAIN block_update THEN block_update[f] ELSE block[f]])

\* the slice taken from the end instead
TruncateTail(new_val, limit) ==
    IF Len(new_val) > limit
    THEN SubSeq(new_val, Len(new_val) - limit + 1, Len(new_val))
    ELSE new_val

\* new_val[: block.limit]
Truncate(new_val, limit) ==
    IF Len(new_val) > limit THEN SubSeq(new_val, 1, limit) ELSE new_val

\* no row taken when one of the ids is missing
BulkFoundAllOrNone(blks, updates, actor) ==
    IF DOMAIN updates \subseteq DOMAIN blks
    THEN {b \in DOMAIN updates : blks[b].organization_id = actor.organization_id}
    ELSE {}

\* the rows the bulk update's query finds
BulkFound(blks, updates, actor) ==
    {b \in DOMAIN updates \cap DOMAIN blks :
        blks[b].organization_id = actor.organization_id}

\* the write that also detaches the block from its checkpoint
BulkWritesDetaching(block, new_val) ==
    orm_update([block EXCEPT !.value = Truncate(new_val, block.limit),
                             !.current_history_entry_id = NoEntry])

\* the block after the loop body; the store writes (and versions) the row
\* only when an attribute changed
BulkWrites(block, new_val) ==
    LET clamped == Truncate(new_val, block.limit)
    IN IF clamped = block.value THEN block
       ELSE orm_update([block EXCEPT !.value = clamped])

(* ---------------------------------------------------------------------- *)
(* One caller at a time: a call is a transaction, a transaction is a step  *)
(* ---------------------------------------------------------------------- *)
Call(op, block_id, result) == [op |-> op, block_id |-> block_id, result |-> result]

\* a call of checkpoint_block, with the agent_id it was given
CheckpointCall(block_id, agent_id, result) ==
    [op |-> "checkpoint", block_id |-> block_id, result |-> result,
     agent_id |-> agent_id]

\* a call of the bulk update, which takes a mapping instead of one id
BulkCall(updates, result) ==
    [op |-> "bulk_update", block_id |-> None, result |-> result, updates |-> updates]

update_block(block_id, block_update, actor) ==
    /\ block_id \in DOMAIN blocks
    /\ blocks[block_id].version < MaxVersion
    /\ blocks' = [blocks EXCEPT ![block_id] = UpdateWrites(@, block_update)]
    /\ last' = Call("update_block", block_id, OK)
    /\ UNCHANGED <<history, next_history_id, listing, txs, pager>>

checkpoint_block(block_id, actor, agent_id) ==
    /\ block_id \in DOMAIN blocks
    /\ blocks[block_id].version < MaxVersion
    /\ next_history_id <= MaxHistoryIds
    /\ LET w == CheckpointWrites(history, block_id, blocks[block_id],
                                 next_history_id, actor, agent_id)
       IN /\ history' = w.history
          /\ blocks' = [blocks EXCEPT ![block_id] = w.block]
    /\ next_history_id' = next_history_id + 1
    /\ last' = CheckpointCall(block_id, agent_id, OK)
    /\ UNCHANGED <<listing, txs, pager>>

\* an undo that drops the checkpoint it leaves
undo_checkpoint_block_popping(block_id, actor) ==
    /\ block_id \in DOMAIN blocks
    /\ LET w == UndoWrites(history, block_id, blocks[block_id])
       IN /\ w.result = OK => blocks[block_id].version < MaxVersion
          /\ blocks' = IF w.result = OK
                       THEN [blocks EXCEPT ![block_id] = w.block]
                       ELSE blocks
          /\ history' = IF w.result = OK
                        THEN Without(history, {blocks[block_id].current_history_entry_id})
                        ELSE history
          /\ last' = Call("undo", block_id, w.result)
    /\ UNCHANGED <<next_history_id, listing, txs, pager>>

undo_checkpoint_block(block_id, actor) ==
    /\ block_id \in DOMAIN blocks
    /\ LET w == UndoWrites(history, block_id, blocks[block_id])
       IN /\ w.result = OK => blocks[block_id].version < MaxVersion
          /\ blocks' = IF w.result = OK
                       THEN [blocks EXCEPT ![block_id] = w.block]
                       ELSE blocks
          /\ last' = Call("undo", block_id, w.result)
    /\ UNCHANGED <<history, next_history_id, listing, txs, pager>>

redo_checkpoint_block(block_id, actor) ==
    /\ block_id \in DOMAIN blocks
    /\ LET w == RedoWrites(history, block_id, blocks[block_id])
       IN /\ w.result = OK => blocks[block_id].version < MaxVersion
          /\ blocks' = IF w.result = OK
                       THEN [blocks EXCEPT ![block_id] = w.block]
                       ELSE blocks
          /\ last' = Call("redo", block_id, w.result)
    /\ UNCHANGED <<history, next_history_id, listing, txs, pager>>

bulk_update_block_values_async(updates, actor) ==
    /\ \A b \in BulkFound(blocks, updates, actor) : blocks[b].version < MaxVersion
    /\ blocks' = [b \in DOMAIN blocks |->
                     IF b \in BulkFound(blocks, updates, actor)
                     THEN BulkWrites(blocks[b], updates[b])
                     ELSE blocks[b]]
    /\ last' = BulkCall(updates, OK)
    /\ UNCHANGED <<history, next_history_id, listing, txs, pager>>

(* ---------------------------------------------------------------------- *)
(* Spec: the history engine with one caller                                *)
(* ---------------------------------------------------------------------- *)
\* the block of Spec
HistoryBlockIds == {AllBlockIds[1]}

\* the BlockUpdate payloads: every update of one field, and one of all five
FieldValues(f) ==
    CASE f = "description" -> Descriptions
      [] f = "label" -> Labels
      [] f = "value" -> Values
      [] f = "limit" -> Limits
      [] f = "metadata_" -> Metadatas
FullUpdate ==
    [description |-> <<"D", "b">>, label |-> <<"A", "b">>, value |-> <<"b">>,
     limit |-> 1,
     metadata_ |-> "m1"]
BlockUpdates ==
    UNION {{[g \in {f} |-> v] : v \in FieldValues(f)} : f \in SnapshotFields}
        \cup {FullUpdate}

\* the mappings of the bulk update: the block, to any value, and an id that
\* does not resolve
BulkUpdates ==
    {m \in UNION {[S -> Values] :
                     S \in SUBSET {AllBlockIds[1], AllBlockIds[3]} \ {{}}} :
        AllBlockIds[3] \in DOMAIN m => m[AllBlockIds[3]] = <<"a", "b">>}

NoCall == Call("none", None, OK)
NoTxs == <<>>
NoPager == <<>>

Init ==
    /\ blocks = [b \in HistoryBlockIds |-> NewBlock(0)]
    /\ history = <<>>
    /\ next_history_id = 1
    /\ blocks_agents = {}
    /\ identities_blocks = {}
    /\ database_engine = POSTGRES
    /\ last = NoCall
    /\ txs = NoTxs
    /\ pager = NoPager

Next ==
    \/ \E b \in HistoryBlockIds, u \in BlockUpdates : update_block(b, u, Actor)
    \/ \E b \in HistoryBlockIds : checkpoint_block(b, Actor, None)
    \/ \E b \in HistoryBlockIds : undo_checkpoint_block(b, Actor)
    \/ \E b \in HistoryBlockIds : redo_checkpoint_block(b, Actor)
    \/ \E m \in BulkUpdates : bulk_update_block_values_async(m, Actor)

Spec == Init /\ [][Next]_vars

(* ---------------------------------------------------------------------- *)
(* SpecTx: concurrent callers.  A call opens a session, loads its rows,    *)
(* runs its statements inside one transaction and commits once.            *)
(* ---------------------------------------------------------------------- *)
ErrAborted == [exc |-> "OperationalError", msg |-> "transaction aborted"]

\* a session right after it loaded its rows; seen remembers the
\* BlockHistory table at that moment
NewTx(op, block_id, arg, loaded, hist) ==
    [op |-> op, block_id |-> block_id, arg |-> arg, pc |-> "loaded",
     loaded |-> loaded, rows |-> loaded, current_seq |-> 0, target_seq |-> 0,
     deleted |-> {}, inserted |-> <<>>, result |-> OK, seen |-> hist]

\* the BlockHistory table as the session sees it: the committed rows
\* without its own deletes, with its own inserts
SessionView(hist, tx) ==
    [h \in (DOMAIN hist \ tx.deleted) \cup DOMAIN tx.inserted |->
        IF h \in DOMAIN tx.inserted THEN tx.inserted[h] ELSE hist[h]]

\* a delete that is committed at once
QueryDeleteCommits(hist, tx, ids) ==
    [history |-> Without(hist, ids), tx |-> tx]

\* session.query(BlockHistory).filter(...).delete(): pending until the commit
QueryDelete(hist, tx, ids) ==
    [history |-> hist, tx |-> [tx EXCEPT !.deleted = @ \cup ids]]

\* history_entry.create without no_commit=True: commits what is pending
HistoryCreateCommits(hist, tx, id, entry) ==
    [history |-> Put(Without(hist, tx.deleted), id, entry),
     tx |-> [tx EXCEPT !.inserted = Put(@, id, entry)]]

\* history_entry.create(session, actor=actor, no_commit=True)
HistoryCreate(hist, tx, id, entry) ==
    [history |-> hist, tx |-> [tx EXCEPT !.inserted = Put(@, id, entry)]]

\* the rows a flush writes
Dirty(loaded, rows) == {b \in DOMAIN rows : rows[b] # loaded[b]}

\* a flush that does not compare versions
VersionUnchecked(blks, loaded, dirty) == TRUE

\* UPDATE block ... WHERE id = :id AND version = :loaded_version
VersionMatches(blks, loaded, dirty) ==
    \A b \in dirty : b \in DOMAIN blks /\ blks[b].version = loaded[b].version

\* another session has flushed b and not yet committed: it holds the row
RowLocked(t, dirty) ==
    \E u \in DOMAIN txs :
        /\ u # t
        /\ txs[u].pc = "flushed"
        /\ Dirty(txs[u].loaded, txs[u].rows) \cap dirty # {}

\* what is left of a session once its call has returned or raised: the
\* outcome, the row versions it had loaded and the ids of the BlockHistory
\* rows it had deleted and created
Closed(tx, pc, result) ==
    [op |-> tx.op, block_id |-> tx.block_id, pc |-> pc, result |-> result,
     versions |-> [b \in DOMAIN tx.loaded |-> tx.loaded[b].version],
     deleted |-> tx.deleted, created |-> DOMAIN tx.inserted]

\* the session after the flush of new_rows
Flush(blks, tx, new_rows) ==
    IF VersionMatches(blks, tx.loaded, Dirty(tx.loaded, new_rows))
    THEN [tx EXCEPT !.pc = "flushed", !.rows = new_rows]
    ELSE Closed(tx, "failed", ErrStale)

\* BlockModel.read / the bulk query inside a new session
TxLoad(op, block_id, arg) ==
    /\ Len(txs) < MaxTxs
    /\ block_id \in DOMAIN blocks
    /\ txs' = Append(txs, NewTx(op, block_id, arg,
                                [b \in {block_id} |-> blocks[b]], history))
    /\ UNCHANGED <<blocks, history, next_history_id, listing, last, pager>>

TxLoadBulk(updates, actor) ==
    /\ Len(txs) < MaxTxs
    /\ txs' = Append(txs, NewTx("bulk_update", None, updates,
                                [b \in BulkFound(blocks, updates, actor) |-> blocks[b]],
                                history))
    /\ UNCHANGED <<blocks, history, next_history_id, listing, last, pager>>

\* checkpoint_block steps 2-3
TxPrune(t) ==
    /\ txs[t].op = "checkpoint" /\ txs[t].pc = "loaded"
    /\ LET tx == txs[t]
           b == tx.block_id
           view == SessionView(history, tx)
           current_seq == CurrentSeq(view, tx.rows[b])
           r == QueryDelete(history, tx, FutureEntries(view, b, current_seq))
       IN /\ history' = r.history
          /\ txs' = [txs EXCEPT ![t] = [r.tx EXCEPT !.pc = "pruned",
                                                    !.current_seq = current_seq]]
    /\ UNCHANGED <<blocks, next_history_id, listing, last, pager>>

\* checkpoint_block steps 4-6
TxInsert(t, actor) ==
    /\ txs[t].op = "checkpoint" /\ txs[t].pc = "pruned"
    /\ LET tx == txs[t]
           b == tx.block_id
           next_seq == tx.current_seq + 1
           history_entry == HistoryEntry(b, tx.rows[b], next_seq, actor, tx.arg)
           r == HistoryCreate(history, tx, next_history_id, history_entry)
       IN /\ history' = r.history
          /\ txs' = [txs EXCEPT ![t] =
                        [r.tx EXCEPT !.pc = "inserted",
                                     !.rows[b].current_history_entry_id = next_history_id]]
    /\ next_history_id' = next_history_id + 1
    /\ UNCHANGED <<blocks, listing, last, pager>>

\* checkpoint_block step 7, update_block and the bulk update up to the
\* flush of the block rows
TxFlush(t) ==
    /\ \/ txs[t].op = "checkpoint" /\ txs[t].pc = "inserted"
       \/ txs[t].op \in {"update_block", "bulk_update"} /\ txs[t].pc = "loaded"
    /\ LET tx == txs[t]
           new_rows ==
               [b \in DOMAIN tx.rows |->
                   CASE tx.op = "checkpoint" -> orm_update(tx.rows[b])
                     [] tx.op = "update_block" -> UpdateWrites(tx.rows[b], tx.arg)
                     [] tx.op = "bulk_update" -> BulkWrites(tx.rows[b], tx.arg[b])]
       IN /\ ~RowLocked(t, Dirty(tx.loaded, new_rows))
          /\ txs' = [txs EXCEPT ![t] = Flush(blocks, tx, new_rows)]
    /\ UNCHANGED <<blocks, history, next_history_id, listing, last, pager>>

\* undo_checkpoint_block steps 1-2, redo_checkpoint_block up to next_entry
TxFind(t) ==
    /\ txs[t].op \in {"undo", "redo"} /\ txs[t].pc = "loaded"
    /\ LET tx == txs[t]
           b == tx.block_id
           view == SessionView(history, tx)
           f == IF tx.op = "undo" THEN UndoTarget(view, b, tx.rows[b])
                ELSE RedoTarget(view, b, tx.rows[b])
       IN txs' = [txs EXCEPT ![t] =
                     IF f.result = OK
                     THEN [tx EXCEPT !.pc = "found", !.target_seq = f.target_seq]
                     ELSE Closed(tx, "failed", f.result)]
    /\ UNCHANGED <<blocks, history, next_history_id, listing, last, pager>>

\* _move_block_to_sequence inside the session
TxMove(t) ==
    /\ txs[t].op \in {"undo", "redo"} /\ txs[t].pc = "found"
    /\ LET tx == txs[t]
           b == tx.block_id
           m == move_block_to_sequence(SessionView(history, tx), b, tx.rows[b],
                                       tx.target_seq)
           new_rows == [x \in {b} |-> m.block]
       IN IF m.result # OK
          THEN txs' = [txs EXCEPT ![t] = Closed(tx, "failed", m.result)]
          ELSE /\ ~RowLocked(t, {b})
               /\ txs' = [txs EXCEPT ![t] = Flush(blocks, tx, new_rows)]
    /\ UNCHANGED <<blocks, history, next_history_id, listing, last, pager>>

\* session.commit()
TxCommit(t) ==
    /\ txs[t].pc = "flushed"
    /\ LET tx == txs[t]
           dirty == Dirty(tx.loaded, tx.rows)
       IN /\ history' = SessionView(history, tx)
          /\ blocks' = [b \in DOMAIN blocks |->
                           IF b \in dirty THEN tx.rows[b] ELSE blocks[b]]
          /\ txs' = [txs EXCEPT ![t] = Closed(tx, "committed", OK)]
    /\ UNCHANGED <<next_history_id, listing, last, pager>>

\* the session is closed before its commit (timeout, lost connection):
\* the store rolls the transaction back
TxAbort(t) ==
    /\ txs[t].pc \in {"loaded", "pruned", "inserted", "found", "flushed"}
    /\ txs' = [txs EXCEPT ![t] = Closed(@, "aborted", ErrAborted)]
    /\ UNCHANGED <<blocks, history, next_history_id, listing, last, pager>>

\* the blocks, updates and mappings of SpecTx
TxBlockIds == {AllBlockIds[1], AllBlockIds[2]}
TxBlockUpdates == {[g \in {"value"} |-> <<"a", "b">>]}
TxBulkUpdates ==
    {[b \in {AllBlockIds[1], AllBlockIds[3]} |-> <<"b", "a">>]}

\* a store and the store after one call on block b, as Spec runs the call
Store(blks, hist, next_id) ==
    [blocks |-> blks, history |-> hist, next_history_id |-> next_id]
AfterCheckpoint(st, b) ==
    LET w == CheckpointWrites(st.history, b, st.blocks[b], st.next_history_id,
                              Actor, None)
    IN Store([st.blocks EXCEPT ![b] = w.block], w.history, st.next_history_id + 1)
AfterUpdate(st, b, u) ==
    Store([st.blocks EXCEPT ![b] = UpdateWrites(@, u)], st.history,
          st.next_history_id)
AfterUndo(st, b) ==
    Store([st.blocks EXCEPT ![b] = UndoWrites(st.history, b, @).block],
          st.history, st.next_history_id)

\* the stores SpecTx starts from: the first block fresh, with one
\* checkpoint, with two, or with two and undone to the first; the second
\* block fresh or with one checkpoint
TxStores ==
    LET b1 == AllBlockIds[1]
        b2 == AllBlockIds[2]
        u == CHOOSE x \in TxBlockUpdates : TRUE
        s0 == Store([b \in TxBlockIds |-> NewBlock(0)], <<>>, 1)
        s1 == AfterCheckpoint(s0, b1)
        s2 == AfterCheckpoint(AfterUpdate(s1, b1, u), b1)
        s3 == AfterUndo(s2, b1)
    IN {s0, s1, s2, s3}
         \cup {AfterCheckpoint(st, b2) : st \in {s0, s1, s2, s3}}

InitTx ==
    /\ \E st \in TxStores :
          /\ blocks = st.blocks
          /\ history = st.history
          /\ next_history_id = st.next_history_id
    /\ blocks_agents = {}
    /\ identities_blocks = {}
    /\ database_engine = POSTGRES
    /\ last = NoCall
    /\ txs = NoTxs
    /\ pager = NoPager

NextTx ==
    \/ \E b \in TxBlockIds, u \in TxBlockUpdates : TxLoad("update_block", b, u)
    \/ \E b \in TxBlockIds : TxLoad("checkpoint", b, None)
    \/ \E b \in TxBlockIds : TxLoad("undo", b, None)
    \/ \E b \in TxBlockIds : TxLoad("redo", b, None)
    \/ \E m \in TxBulkUpdates : TxLoadBulk(m, Actor)
    \/ \E t \in DOMAIN txs : TxPrune(t)
    \/ \E t \in DOMAIN txs : TxInsert(t, Actor)
    \/ \E t \in DOMAIN txs : TxFlush(t)
    \/ \E t \in DOMAIN txs : TxFind(t)
    \/ \E t \in DOMAIN txs : TxMove(t)
    \/ \E t \in DOMAIN txs : TxCommit(t)
    \/ \E t \in DOMAIN txs : TxAbort(t)

SpecTx == InitTx /\ [][NextTx]_vars

(* ---------------------------------------------------------------------- *)
(* The listing: get_blocks_async                                           *)
(* ---------------------------------------------------------------------- *)
\* position of a block id in the order of the id column
IdRank(id) == CHOOSE i \in DOMAIN AllBlockIds : AllBlockIds[i] = id

Identities == {"identity-1", "identity-2"}
\* the identifier_key column of the identities
identifier_key == [i \in Identities |-> IF i = "identity-1" THEN "key-1" ELSE "key-2"]

\* the parameters of a call that passes only the actor, without the limit
NoFilters ==
    [label |-> <<>>, is_template |-> {}, template_name |-> None,
     identity_id |-> None, identifier_keys |-> {}, project_id |-> None,
     before |-> None, after |-> None, limit |-> 0,
     label_search |-> <<>>, description_search |-> <<>>, value_search |-> <<>>,
     connected_to_agents_count_gt |-> {}, connected_to_agents_count_lt |-> {},
     connected_to_agents_count_eq |-> {}, ascending |-> TRUE]

Lower(c) ==
    CASE c = "A" -> "a" [] c = "B" -> "b" [] c = "D" -> "d" [] OTHER -> c

\* column ILIKE '%pattern%'
ilike(text, pattern) ==
    \E i \in 0..(Len(text) - Len(pattern)) :
        \A j \in 1..Len(pattern) : Lower(text[i + j]) = Lower(pattern[j])

\* the filters on the columns of the block
where_filters(row, q, actor) ==
    /\ row.organization_id = actor.organization_id
    /\ q.label # <<>> => row.label = q.label
    /\ \A t \in q.is_template : row.is_template = t
    /\ q.template_name # None => row.template_name = q.template_name
    /\ q.project_id # None => row.project_id = q.project_id
    /\ (q.label_search # <<>> /\ q.label = <<>>) => ilike(row.label, q.label_search)
    /\ q.description_search # <<>> => ilike(row.description, q.description_search)
    /\ q.value_search # <<>> => ilike(row.value, q.value_search)

needs_agent_count_join(q) ==
    \/ q.connected_to_agents_count_gt # {}
    \/ q.connected_to_agents_count_lt # {}
    \/ q.connected_to_agents_count_eq # {}

\* the row of the subquery that counts the agents of a block, if it has one
agent_count(links, block_id) == Cardinality({l \in links : l[1] = block_id})

\* the inner join taken whatever the conditions
agent_count_filter_inner_join(links, block_id, q) ==
    LET n == agent_count(links, block_id)
    IN  needs_agent_count_join(q) =>
            /\ n > 0
            /\ \A gt \in q.connected_to_agents_count_gt : n > gt
            /\ \A lt \in q.connected_to_agents_count_lt : n < lt
            /\ \A eq \in q.connected_to_agents_count_eq : n \in eq

\* the join with the count subquery and the conditions on the count
agent_count_filter(links, block_id, q) ==
    LET needs_left_join ==
            \/ q.connected_to_agents_count_lt # {}
            \/ \E eq \in q.connected_to_agents_count_eq : 0 \in eq
        n == agent_count(links, block_id)
    IN  needs_agent_count_join(q) =>
            /\ needs_left_join \/ n > 0
            /\ \A gt \in q.connected_to_agents_count_gt : n > gt
            /\ \A lt \in q.connected_to_agents_count_lt : n < lt
            /\ \A eq \in q.connected_to_agents_count_eq : n \in eq

\* the joins with the identities of the block
identities_filter(idlinks, block_id, q) ==
    /\ q.identifier_keys # {} =>
           \E l \in idlinks : l[1] = block_id /\ identifier_key[l[2]] \in q.identifier_keys
    /\ q.identity_id # None =>
           \E l \in idlinks : l[1] = block_id /\ l[2] = q.identity_id

needs_distinct(q) ==
    needs_agent_count_join(q) \/ q.identifier_keys # {} \/ q.identity_id # None

\* strftime("%Y-%m-%d %H:%M:%S") of a timestamp, applied under SQLite only
strftime(engine, sort_value) ==
    IF engine = SQLITE THEN sort_value - (sort_value % TicksPerSecond) ELSE sort_value

\* the two conditions of a cursor, joined as where(a, b) joins them
cursor_where(row, id, sort_value, cursor_id, greater) ==
    IF greater
    THEN /\ row.created_at > sort_value
         /\ row.created_at = sort_value \/ IdRank(id) > IdRank(cursor_id)
    ELSE /\ row.created_at < sort_value
         /\ row.created_at = sort_value \/ IdRank(id) < IdRank(cursor_id)

\* a cursor that does not resolve lets no row pass
cursor_filter_strict(blks, engine, id, cursor, greater) ==
    cursor # None =>
        /\ cursor \in DOMAIN blks
        /\ cursor_where(blks[id], id, strftime(engine, blks[cursor].created_at),
                        cursor, greater)

\* the filter of one cursor; a cursor that is not given or does not resolve
\* adds no filter
cursor_filter(blks, engine, id, cursor, greater) ==
    (cursor # None /\ cursor \in DOMAIN blks) =>
        cursor_where(blks[id], id, strftime(engine, blks[cursor].created_at),
                     cursor, greater)

\* the ORDER BY of the query
order_by(blks, a, b, distinct, ascending) ==
    LET ka == IF distinct THEN <<IdRank(a), blks[a].created_at>>
                          ELSE <<blks[a].created_at, IdRank(a)>>
        kb == IF distinct THEN <<IdRank(b), blks[b].created_at>>
                          ELSE <<blks[b].created_at, IdRank(b)>>
        less == ka[1] < kb[1] \/ (ka[1] = kb[1] /\ ka[2] < kb[2])
        more == ka[1] > kb[1] \/ (ka[1] = kb[1] /\ ka[2] > kb[2])
    IN  IF ascending THEN less ELSE more

RECURSIVE Ordered(_, _, _, _)
Ordered(blks, ids, distinct, ascending) ==
    IF ids = {} THEN <<>>
    ELSE LET first == CHOOSE a \in ids :
                          \A b \in ids \ {a} : order_by(blks, a, b, distinct, ascending)
         IN  <<first>> \o Ordered(blks, ids \ {first}, distinct, ascending)

query_limit(rows, limit) ==
    IF limit # 0 /\ limit < Len(rows) THEN SubSeq(rows, 1, limit) ELSE rows

\* the ids of the blocks the call returns, in the order it returns them
get_blocks_async(blks, links, idlinks, engine, actor, q) ==
    LET selected ==
            {id \in DOMAIN blks :
                /\ where_filters(blks[id], q, actor)
                /\ agent_count_filter(links, id, q)
                /\ identities_filter(idlinks, id, q)
                /\ cursor_filter(blks, engine, id, q.after, q.ascending)
                /\ cursor_filter(blks, engine, id, q.before, ~q.ascending)}
    IN  query_limit(Ordered(blks, selected, needs_distinct(q), q.ascending), q.limit)

(* ---------------------------------------------------------------------- *)
(* SpecPage: a caller that lists the blocks                                *)
(* ---------------------------------------------------------------------- *)
Listed(pc, q, result, pages) ==
    [pc |-> pc, q |-> q, result |-> result, pages |-> pages]

\* one call with the parameters q; a call without a cursor starts a traversal
ListBlocks(actor, q) ==
    LET result == get_blocks_async(blocks, blocks_agents, identities_blocks,
                                   database_engine, actor, q)
        pc == IF q.after # None \/ q.before # None THEN "single"
              ELSE IF result = <<>> THEN "done" ELSE "paging"
    IN  /\ pager.pc = "idle"
        /\ pager' = Listed(pc, q, result, result)
        /\ UNCHANGED <<blocks, history, next_history_id, listing, last, txs>>

\* the next call of a traversal: after = the id of the last block of the
\* previous page; the traversal ends with the first empty page
NextPage ==
    /\ pager.pc = "paging"
    /\ LET q == [pager.q EXCEPT !.after = pager.result[Len(pager.result)]]
           result == get_blocks_async(blocks, blocks_agents, identities_blocks,
                                      database_engine, Actor, q)
       IN  pager' = Listed(IF result = <<>> THEN "done" ELSE "paging",
                           q, result, pager.pages \o result)
    /\ UNCHANGED <<blocks, history, next_history_id, listing, last, txs>>

\* the filter sets of the calls
PageFilters ==
    {NoFilters,
     [NoFilters EXCEPT !.label = <<"A", "b">>],
     [NoFilters EXCEPT !.value_search = <<"A">>, !.is_template = {FALSE}],
     [NoFilters EXCEPT !.connected_to_agents_count_lt = {2}],
     [NoFilters EXCEPT !.connected_to_agents_count_lt = {1}],
     [NoFilters EXCEPT !.connected_to_agents_count_eq = {{0}}],
     [NoFilters EXCEPT !.connected_to_agents_count_gt = {0},
                       !.connected_to_agents_count_eq = {{1, 2}}],
     [NoFilters EXCEPT !.connected_to_agents_count_gt = {-1}],
     [NoFilters EXCEPT !.label = <<"a">>, !.label_search = <<"b">>],
     [NoFilters EXCEPT !.identifier_keys = {"key-1", "key-2"}],
     [NoFilters EXCEPT !.identity_id = "identity-2"]}

PageLimits == 0..MaxLimit

\* the parameters of a call that starts a traversal
PageQueries ==
    {[f EXCEPT !.limit = l, !.ascending = a] :
        f \in PageFilters, l \in PageLimits, a \in BOOLEAN}

\* the parameters of a call with one cursor
CursorQueries ==
    {[f EXCEPT !.after = c] : f \in PageQueries, c \in Range(AllBlockIds)}
        \cup {[f EXCEPT !.before = c] : f \in PageQueries, c \in Range(AllBlockIds)}

\* the second block of a collection: of the other label and value, a template
OtherBlock(created_at) ==
    [NewBlock(created_at) EXCEPT !.label = <<"A", "b">>, !.value = <<"b", "a">>,
                                 !.is_template = TRUE]

\* the timestamps a store of this engine holds
CreatedAts(engine) ==
    {ts \in 0..MaxTick : engine = SQLITE => ts % TicksPerSecond = 0}

\* the collections of SpecPage: two or three blocks, with and without rows
\* of the two relations
PageCollections(engine) ==
    {[id \in ids |-> IF id = AllBlockIds[2] /\ other THEN OtherBlock(ts[id])
                                                    ELSE NewBlock(ts[id])] :
        ids \in {Range(AllBlockIds), Range(AllBlockIds) \ {AllBlockIds[3]}},
        ts \in [Range(AllBlockIds) -> CreatedAts(engine)],
        other \in BOOLEAN}

PageAgents ==
    {<<AllBlockIds[1], "agent-1">>, <<AllBlockIds[1], "agent-2">>,
     <<AllBlockIds[2], "agent-1">>}

PageIdentities ==
    {<<AllBlockIds[1], "identity-1">>, <<AllBlockIds[1], "identity-2">>,
     <<AllBlockIds[2], "identity-2">>}

InitPage ==
    /\ database_engine \in {POSTGRES, SQLITE}
    /\ blocks \in PageCollections(database_engine)
    /\ history = <<>>
    /\ next_history_id = 1
    /\ \E related \in BOOLEAN :
          /\ blocks_agents = IF related THEN PageAgents ELSE {}
          /\ identities_blocks = IF related THEN PageIdentities ELSE {}
    /\ last = NoCall
    /\ txs = NoTxs
    /\ pager = Listed("idle", NoFilters, <<>>, <<>>)

NextOfPage ==
    \/ \E q \in PageQueries \cup CursorQueries : ListBlocks(Actor, q)
    \/ NextPage

SpecPage == InitPage /\ [][NextOfPage]_vars

(* ---------------------------------------------------------------------- *)
(* SpecPageWrites: a traversal while other callers create and delete       *)
(* ---------------------------------------------------------------------- *)
\* create_or_update_block_async for an id that is not there: the new row,
\* stamped with the time of the insert
create_or_update_block_async(block_id, created_at, actor) ==
    /\ block_id \notin DOMAIN blocks
    /\ \A b \in DOMAIN blocks : blocks[b].created_at <= created_at
    /\ blocks' = Put(blocks, block_id, NewBlock(created_at))
    /\ last' = Call("create", block_id, OK)
    /\ UNCHANGED <<history, next_history_id, listing, txs, pager>>

\* block.hard_delete: the row of the block and, by the cascade of the store,
\* its checkpoints and its rows in the relation with the identities
hard_delete(blks, hist, idlinks, block_id) ==
    [blocks |-> Without(blks, {block_id}),
     history |-> Without(hist, EntriesOf(hist, block_id)),
     identities_blocks |-> {l \in idlinks : l[1] # block_id}]

\* a delete that leaves the rows of BlocksAgents
delete_block_async_keeping_links(block_id, actor) ==
    /\ IF block_id \in DOMAIN blocks
             /\ blocks[block_id].organization_id = actor.organization_id
       THEN LET d == hard_delete(blocks, history, identities_blocks, block_id)
            IN  /\ blocks_agents' = blocks_agents
                /\ blocks' = d.blocks
                /\ history' = d.history
                /\ identities_blocks' = d.identities_blocks
                /\ last' = Call("delete", block_id, OK)
       ELSE /\ UNCHANGED <<blocks, history, blocks_agents, identities_blocks>>
            /\ last' = Call("delete", block_id, ErrBlockNotFound)
    /\ UNCHANGED <<next_history_id, database_engine, txs, pager>>

\* delete_block_async: the rows of BlocksAgents of the block, then the
\* block; a block that is not found rolls the delete of the rows back
delete_block_async(block_id, actor) ==
    /\ IF block_id \in DOMAIN blocks
             /\ blocks[block_id].organization_id = actor.organization_id
       THEN LET d == hard_delete(blocks, history, identities_blocks, block_id)
            IN  /\ blocks_agents' = {l \in blocks_agents : l[1] # block_id}
                /\ blocks' = d.blocks
                /\ history' = d.history
                /\ identities_blocks' = d.identities_blocks
                /\ last' = Call("delete", block_id, OK)
       ELSE /\ UNCHANGED <<blocks, history, blocks_agents, identities_blocks>>
            /\ last' = Call("delete", block_id, ErrBlockNotFound)
    /\ UNCHANGED <<next_history_id, database_engine, txs, pager>>

\* the blocks that are there from the start; the third id is the one created
StartingIds == Range(AllBlockIds) \ {AllBlockIds[3]}

InitPageWrites ==
    /\ InitPage
    /\ DOMAIN blocks = StartingIds

\* the writes fall between the fetches of a traversal and spare the block
\* the next fetch takes as its cursor
NextPageWrites ==
    \/ \E q \in PageQueries : ListBlocks(Actor, q)
    \/ NextPage
    \/ /\ pager.pc = "paging"
       /\ \E ts \in CreatedAts(database_engine) :
             create_or_update_block_async(AllBlockIds[3], ts, Actor)
    \/ /\ pager.pc = "paging"
       /\ \E b \in Range(AllBlockIds) \ {pager.result[Len(pager.result)]} :
             delete_block_async(b, Actor)

SpecPageWrites == InitPageWrites /\ [][NextPageWrites]_vars

(* ---------------------------------------------------------------------- *)
(* SpecDelete: blocks with checkpoints and agents, and their deletion      *)
(* ---------------------------------------------------------------------- *)
InitDelete ==
    /\ blocks = [b \in TxBlockIds |-> NewBlock(0)]
    /\ history = <<>>
    /\ next_history_id = 1
    /\ blocks_agents = PageAgents
    /\ identities_blocks = PageIdentities
    /\ database_engine = POSTGRES
    /\ last = NoCall
    /\ txs = NoTxs
    /\ pager = NoPager

\* the first block is edited, checkpointed by the user and by an agent, and
\* moved back and forth; the second is checkpointed by the user
NextDelete ==
    \/ \E b \in HistoryBlockIds : update_block(b, FullUpdate, Actor)
    \/ \E b \in HistoryBlockIds, a \in AgentIds : checkpoint_block(b, Actor, a)
    \/ \E b \in TxBlockIds \ HistoryBlockIds : checkpoint_block(b, Actor, None)
    \/ \E b \in HistoryBlockIds : undo_checkpoint_block(b, Actor)
    \/ \E b \in HistoryBlockIds : redo_checkpoint_block(b, Actor)
    \/ \E b \in Range(AllBlockIds) : delete_block_async(b, Actor)

SpecDelete == InitDelete /\ [][NextDelete]_vars

(* ---------------------------------------------------------------------- *)
(* SpecNav: undo and redo over histories whose sequence numbers have gaps  *)
(* ---------------------------------------------------------------------- *)
\* the block as it was when checkpoint number seq was taken
SnapshotOf(seq) ==
    [NewBlock(0) EXCEPT !.value = IF seq % 2 = 1 THEN <<"a">> ELSE <<"a", "b">>,
                        !.description = IF seq > 2 THEN <<"D", "b">> ELSE <<"d">>]

\* the BlockHistory table of one block whose checkpoints carry the
\* sequence numbers of seqs, made in that order
NavHistory(block_id, seqs) ==
    [id \in 1..Cardinality(seqs) |->
        LET seq == CHOOSE k \in seqs : Cardinality({x \in seqs : x <= k}) = id
        IN  HistoryEntry(block_id, SnapshotOf(seq), seq, Actor, None)]

InitNav ==
    /\ \E seqs \in SUBSET (1..MaxSeq) :
          /\ Cardinality(seqs) \in 1..MaxHistoryIds
          /\ history = NavHistory(AllBlockIds[1], seqs)
          /\ next_history_id = Cardinality(seqs) + 1
          /\ \E current \in 1..Cardinality(seqs) :
                blocks = [b \in HistoryBlockIds |->
                             [f \in DOMAIN NewBlock(0) |->
                                 IF f \in SnapshotFields THEN history[current][f]
                                 ELSE IF f = "current_history_entry_id" THEN current
                                 ELSE NewBlock(0)[f]]]
    /\ blocks_agents = {}
    /\ identities_blocks = {}
    /\ database_engine = POSTGRES
    /\ last = NoCall
    /\ txs = NoTxs
    /\ pager = NoPager

NextNav ==
    \/ \E b \in HistoryBlockIds : update_block(b, FullUpdate, Actor)
    \/ \E b \in HistoryBlockIds : checkpoint_block(b, Actor, None)
    \/ \E b \in HistoryBlockIds : undo_checkpoint_block(b, Actor)
    \/ \E b \in HistoryBlockIds : redo_checkpoint_block(b, Actor)

SpecNav == InitNav /\ [][NextNav]_vars

(* ---------------------------------------------------------------------- *)
(* SpecPreloaded: callers that pass use_preloaded_block, a Block row they  *)
(* read in a session of their own before the call                          *)
(* ---------------------------------------------------------------------- *)
MaxPreloaded == 1

\* a call that was given use_preloaded_block
PreloadedCall(op, block_id, agent_id, use_preloaded_block, result) ==
    [op |-> op, block_id |-> block_id, result |-> result, agent_id |-> agent_id,
     use_preloaded_block |-> use_preloaded_block]

\* session.merge(use_preloaded_block) on a mapper with a version_id_col:
\* the row is loaded by its id and the state of the given object is copied
\* onto it, unless the two carry different versions
session_merge(blks, block_id, use_preloaded_block) ==
    IF blks[block_id].version # use_preloaded_block.version
    THEN [result |-> ErrStale, block |-> blks[block_id]]
    ELSE [result |-> OK, block |-> use_preloaded_block]

\* the caller reads the row it will pass later
Preload(block_id) ==
    /\ Len(txs) < MaxPreloaded
    /\ block_id \in DOMAIN blocks
    /\ txs' = Append(txs, [block_id |-> block_id, block |-> blocks[block_id]])
    /\ last' = Call("read", block_id, OK)
    /\ UNCHANGED <<blocks, history, next_history_id, listing, pager>>

\* the call failed before it wrote anything: the session is rolled back
Raised(call) ==
    /\ last' = call
    /\ UNCHANGED <<blocks, history, next_history_id>>

\* the row passed is ignored and the block read again
checkpoint_block_read_again(block_id, actor, agent_id, use_preloaded_block) ==
    /\ block_id \in DOMAIN blocks
    /\ blocks[block_id].version < MaxVersion
    /\ next_history_id <= MaxHistoryIds
    /\ LET w == CheckpointWrites(history, block_id, blocks[block_id],
                                 next_history_id, actor, agent_id)
       IN /\ history' = w.history
          /\ blocks' = [blocks EXCEPT ![block_id] = w.block]
    /\ next_history_id' = next_history_id + 1
    /\ last' = PreloadedCall("checkpoint", block_id, agent_id, use_preloaded_block, OK)
    /\ UNCHANGED <<listing, txs, pager>>

\* checkpoint_block(block_id, actor, agent_id, use_preloaded_block)
checkpoint_block_preloaded(block_id, actor, agent_id, use_preloaded_block) ==
    /\ block_id \in DOMAIN blocks
    /\ LET m == session_merge(blocks, block_id, use_preloaded_block)
           w == CheckpointWrites(history, block_id, m.block, next_history_id,
                                 actor, agent_id)
       IN IF m.result # OK
          THEN Raised(PreloadedCall("checkpoint", block_id, agent_id,
                                    use_preloaded_block, m.result))
          ELSE /\ blocks[block_id].version < MaxVersion
               /\ next_history_id <= MaxHistoryIds
               /\ history' = w.history
               /\ blocks' = [blocks EXCEPT ![block_id] = w.block]
               /\ next_history_id' = next_history_id + 1
               /\ last' = PreloadedCall("checkpoint", block_id, agent_id,
                                        use_preloaded_block, OK)
    /\ UNCHANGED <<listing, txs, pager>>

\* undo_checkpoint_block(block_id, actor, use_preloaded_block)
undo_checkpoint_block_preloaded(block_id, actor, use_preloaded_block) ==
    /\ block_id \in DOMAIN blocks
    /\ LET m == session_merge(blocks, block_id, use_preloaded_block)
           w == UndoWrites(history, block_id, m.block)
       IN IF m.result # OK \/ w.result # OK
          THEN Raised(PreloadedCall("undo", block_id, None, use_preloaded_block,
                                    IF m.result # OK THEN m.result ELSE w.result))
          ELSE /\ blocks[block_id].version < MaxVersion
               /\ blocks' = [blocks EXCEPT ![block_id] = w.block]
               /\ last' = PreloadedCall("undo", block_id, None,
                                        use_preloaded_block, OK)
               /\ UNCHANGED <<history, next_history_id>>
    /\ UNCHANGED <<listing, txs, pager>>

\* redo_checkpoint_block(block_id, actor, use_preloaded_block)
redo_checkpoint_block_preloaded(block_id, actor, use_preloaded_block) ==
    /\ block_id \in DOMAIN blocks
    /\ LET m == session_merge(blocks, block_id, use_preloaded_block)
           w == RedoWrites(history, block_id, m.block)
       IN IF m.result # OK \/ w.result # OK
          THEN Raised(PreloadedCall("redo", block_id, None, use_preloaded_block,
                                    IF m.result # OK THEN m.result ELSE w.result))
          ELSE /\ blocks[block_id].version < MaxVersion
               /\ blocks' = [blocks EXCEPT ![block_id] = w.block]
               /\ last' = PreloadedCall("redo", block_id, None,
                                        use_preloaded_block, OK)
               /\ UNCHANGED <<history, next_history_id>>
    /\ UNCHANGED <<listing, txs, pager>>

InitPreloaded ==
    /\ blocks = [b \in HistoryBlockIds |-> NewBlock(0)]
    /\ history = <<>>
    /\ next_history_id = 1
    /\ blocks_agents = {}
    /\ identities_blocks = {}
    /\ database_engine = POSTGRES
    /\ last = NoCall
    /\ txs = NoTxs
    /\ pager = NoPager

NextPreloaded ==
    \/ \E b \in HistoryBlockIds : update_block(b, FullUpdate, Actor)
    \/ \E b \in HistoryBlockIds : checkpoint_block(b, Actor, None)
    \/ \E b \in HistoryBlockIds : undo_checkpoint_block(b, Actor)
    \/ \E b \in HistoryBlockIds : redo_checkpoint_block(b, Actor)
    \/ \E b \in HistoryBlockIds : Preload(b)
    \/ \E t \in DOMAIN txs :
          checkpoint_block_preloaded(txs[t].block_id, Actor, None, txs[t].block)
    \/ \E t \in DOMAIN txs :
          undo_checkpoint_block_preloaded(txs[t].block_id, Actor, txs[t].block)
    \/ \E t \in DOMAIN txs :
          redo_checkpoint_block_preloaded(txs[t].block_id, Actor, txs[t].block)

SpecPreloaded == InitPreloaded /\ [][NextPreloaded]_vars

(* ---------------------------------------------------------------------- *)
(* Properties of the history engine                                        *)
(* ---------------------------------------------------------------------- *)
\* the block's five fields equal the snapshot its pointer names
AtCheckpoint(blks, hist, b) ==
    /\ blks[b].current_history_entry_id \in DOMAIN hist
    /\ \A f \in SnapshotFields :
           blks[b][f] = hist[blks[b].current_history_entry_id][f]

\* the checkpoints of block b, and the sequence number its pointer is at
Checkpoints(hist, b) == {h \in DOMAIN hist : hist[h].block_id = b}
PointerSeq(blks, hist, b) ==
    IF blks[b].current_history_entry_id \in DOMAIN hist
    THEN hist[blks[b].current_history_entry_id].sequence_number
    ELSE 0
Above(blks, hist, b) ==
    {h \in Checkpoints(hist, b) : hist[h].sequence_number > PointerSeq(blks, hist, b)}
Below(blks, hist, b) ==
    {h \in Checkpoints(hist, b) : hist[h].sequence_number < PointerSeq(blks, hist, b)}

\* the call of this step was op on block b
Called(op, b) == last'.op = op /\ last'.block_id = b

\* the errors the spec calls AtBoundaryError and NoHistoryError
AtBoundaryError == {ErrEarliest, ErrHighest}
NoHistoryError == {ErrNoHistoryUndo, ErrNoHistoryRedo}

\* C1: after every checkpoint, undo or redo that commits, the block's
\* description, label, value, limit and metadata equal the fields of the
\* checkpoint that current_history_entry_id points to.
C1_LinearHistory ==
    (last.op \in {"checkpoint", "undo", "redo"} /\ last.result = OK)
        => AtCheckpoint(blocks, history, last.block_id)

\* an undo has committed and restored a snapshot that differs in every field
\* from a later checkpoint of the block
C1_Witness ==
    /\ last.op = "undo" /\ last.result = OK
    /\ AtCheckpoint(blocks, history, last.block_id)
    /\ \E h \in Above(blocks, history, last.block_id) :
          /\ \A f \in SnapshotFields : history[h][f] # blocks[last.block_id][f]

\* C2: a checkpoint taken at sequence s while rows with a larger sequence
\* number exist deletes all of them, the new row gets s+1 and becomes
\* current, and a redo that follows immediately fails at the boundary.
C2_BranchPrune ==
    [][\A b \in DOMAIN blocks :
          /\ (Called("checkpoint", b) /\ last'.result = OK
                /\ Above(blocks, history, b) # {})
              => /\ Above(blocks, history, b) \cap DOMAIN history' = {}
                 /\ blocks'[b].current_history_entry_id \in DOMAIN history'
                 /\ blocks'[b].current_history_entry_id \notin DOMAIN history
                 /\ history'[blocks'[b].current_history_entry_id].sequence_number
                        = PointerSeq(blocks, history, b) + 1
                 /\ history'[blocks'[b].current_history_entry_id].block_id = b
          /\ (last.op = "checkpoint" /\ last.result = OK /\ last.block_id = b
                /\ Called("redo", b))
              => last'.result \in AtBoundaryError
      ]_vars

\* a redo has failed at the boundary on a block whose checkpoint 2 was taken
\* after an undo: ids 1..3 are used up, the row of id 2 is gone
C2_Witness ==
    /\ last.op = "redo" /\ last.result = ErrHighest
    /\ next_history_id = 4
    /\ DOMAIN history = {1, 3}
    /\ history[3].sequence_number = 2
    /\ blocks[last.block_id].current_history_entry_id = 3

\* C8: undo on a block whose current checkpoint has no earlier checkpoint
\* fails at the boundary and changes neither the block nor its checkpoints.
C8_UndoBoundary ==
    [][\A b \in DOMAIN blocks :
          (/\ Called("undo", b)
           /\ blocks[b].current_history_entry_id \in DOMAIN history
           /\ Below(blocks, history, b) = {})
          => /\ last'.result = ErrEarliest
             /\ UNCHANGED <<blocks, history>>
      ]_vars

\* undo has failed on a block with exactly one checkpoint
C8_Witness ==
    /\ last.op = "undo" /\ last.result = ErrEarliest
    /\ Cardinality(Checkpoints(history, last.block_id)) = 1

\* C9: redo on a block whose current checkpoint has the largest sequence
\* number fails at the boundary and changes nothing; redo right after a
\* successful checkpoint always fails.
C9_RedoBoundary ==
    [][\A b \in DOMAIN blocks :
          /\ (/\ Called("redo", b)
              /\ blocks[b].current_history_entry_id \in DOMAIN history
              /\ Above(blocks, history, b) = {})
             => /\ last'.result = ErrHighest
                /\ UNCHANGED <<blocks, history>>
          /\ (last.op = "checkpoint" /\ last.result = OK /\ last.block_id = b
                /\ Called("redo", b))
             => /\ last'.result = ErrHighest
                /\ UNCHANGED <<blocks, history>>
      ]_vars

\* redo has failed on a block that has two checkpoints and is at the later
C9_Witness ==
    /\ last.op = "redo" /\ last.result = ErrHighest
    /\ Cardinality(Checkpoints(history, last.block_id)) = 2
    /\ PointerSeq(blocks, history, last.block_id) = 2

\* C10: undo and redo on a block without current_history_entry_id fail with
\* the no-history error, which is not the boundary error, and change nothing.
C10_NoHistory ==
    [][\A b \in DOMAIN blocks :
          (blocks[b].current_history_entry_id = NoEntry
             /\ (Called("undo", b) \/ Called("redo", b)))
          => /\ last'.result \in NoHistoryError
             /\ last'.result \notin AtBoundaryError
             /\ UNCHANGED <<blocks, history>>
      ]_vars

\* redo has failed for lack of history on a block that was edited
C10_Witness ==
    /\ last.op = "redo" /\ last.result = ErrNoHistoryRedo
    /\ blocks[last.block_id].current_history_entry_id = NoEntry
    /\ blocks[last.block_id].version > 1

(* ---------------------------------------------------------------------- *)
(* Properties of concurrent sessions                                       *)
(* ---------------------------------------------------------------------- *)
IsOpen(tx) == tx.pc \in {"loaded", "pruned", "inserted", "found", "flushed"}
IsClosed(tx) == tx.pc \in {"committed", "failed", "aborted"}

\* the rows of block b in a BlockHistory table
RowsOf(hist, b) == [h \in Checkpoints(hist, b) |-> hist[h]]

\* the pointer of every block is unset and the block has no checkpoint, or
\* names an existing checkpoint of that block
PointersValid(blks, hist) ==
    \A b \in DOMAIN blks :
        IF blks[b].current_history_entry_id = NoEntry
        THEN Checkpoints(hist, b) = {}
        ELSE /\ blks[b].current_history_entry_id \in DOMAIN hist
             /\ hist[blks[b].current_history_entry_id].block_id = b

\* C3: in every state the pointer of every block is unset, and then the
\* block never had a checkpoint, or names an existing checkpoint owned by
\* the block; a pointer that is set is never unset again.
C3_PointerNeverDangles ==
    [][/\ PointersValid(blocks, history)
       /\ PointersValid(blocks', history')
       /\ \A b \in DOMAIN blocks :
             blocks[b].current_history_entry_id # NoEntry
                 => /\ b \in DOMAIN blocks'
                    /\ blocks'[b].current_history_entry_id # NoEntry
      ]_vars

\* a checkpoint on one block has committed and pruned a row while the other
\* block holds a checkpoint of its own with the same sequence number
C3_Witness ==
    /\ \E t \in DOMAIN txs :
          /\ txs[t].op = "checkpoint" /\ txs[t].pc = "committed"
          /\ txs[t].deleted # {}
          /\ \E b \in DOMAIN blocks :
                /\ b # txs[t].block_id
                /\ blocks[b].current_history_entry_id \in DOMAIN history
                /\ PointerSeq(blocks, history, b) > 0
    /\ PointersValid(blocks, history)

HistoryOps == {"checkpoint", "undo", "redo"}

\* the closed checkpoint/undo/redo sessions on block b that had loaded
\* version v and got as far as the version check of their flush
Racers(b, v) ==
    {t \in DOMAIN txs :
        /\ IsClosed(txs[t]) /\ txs[t].op \in HistoryOps
        /\ txs[t].block_id = b /\ txs[t].versions[b] = v
        /\ txs[t].result \in {OK, ErrStale}}

\* the committed sessions of other calls that had loaded version v of b
OtherWinners(b, v) ==
    {t \in DOMAIN txs :
        /\ txs[t].pc = "committed" /\ txs[t].op \notin HistoryOps
        /\ b \in DOMAIN txs[t].versions /\ txs[t].versions[b] = v
        /\ blocks[b].version > v}

\* the versions of b that closed sessions had loaded
LoadedVersions(b) ==
    {txs[t].versions[b] :
        t \in {u \in DOMAIN txs : IsClosed(txs[u]) /\ b \in DOMAIN txs[u].versions}}

OneWinner ==
    \A b \in DOMAIN blocks :
      \A v \in LoadedVersions(b) :
        (Cardinality(Racers(b, v)) >= 2 /\ OtherWinners(b, v) = {})
            => /\ Cardinality({t \in Racers(b, v) : txs[t].pc = "committed"}) = 1
               /\ \A t \in Racers(b, v) :
                     txs[t].pc # "committed"
                         => /\ txs[t].result = ErrStale
                            /\ txs[t].created \cap DOMAIN history = {}

\* C4: of the checkpoint/undo/redo sessions that loaded one block at the
\* same version and reached the flush, exactly one commits; the others fail
\* with the stale-version error, write nothing, and no session is opened or
\* reopened for them.
C4_OneWinnerPerVersion ==
    [][/\ OneWinner'
       /\ \A t \in DOMAIN txs :
             /\ (IsOpen(txs[t]) /\ txs'[t].pc = "failed")
                   => /\ UNCHANGED <<blocks, history>>
                      /\ Len(txs') = Len(txs)
             /\ IsClosed(txs[t]) => txs'[t] = txs[t]
      ]_vars

\* two sessions had loaded the same version of a block that was undone to
\* its first checkpoint; the checkpoint committed and pruned the second,
\* the redo failed as stale
C4_Witness ==
    \E t, u \in DOMAIN txs :
        /\ txs[t].op = "checkpoint" /\ txs[t].pc = "committed"
        /\ txs[u].op = "redo" /\ txs[u].pc = "failed" /\ txs[u].result = ErrStale
        /\ txs[t].block_id = txs[u].block_id
        /\ txs[t].versions = txs[u].versions
        /\ txs[t].deleted # {}

\* C5: a call is one transaction.  Only the commit of a session changes
\* blocks and checkpoints, and when a session fails or is aborted at any
\* step, every block it loaded that no other session has written since is,
\* with its pointer and its checkpoints, as it was when the call began.
C5_Atomic ==
    [][/\ (blocks' # blocks \/ history' # history)
            => \E t \in DOMAIN txs :
                   txs[t].pc = "flushed" /\ txs'[t].pc = "committed"
       /\ \A t \in DOMAIN txs :
             (IsOpen(txs[t]) /\ txs'[t].pc \in {"failed", "aborted"})
                 => \A b \in DOMAIN txs[t].loaded :
                        blocks'[b].version = txs[t].loaded[b].version
                            => /\ blocks'[b] = txs[t].loaded[b]
                               /\ RowsOf(history', b) = RowsOf(txs[t].seen, b)
      ]_vars

\* a checkpoint session was aborted after its truncation had deleted a
\* later checkpoint: the row is still in the table, the block is untouched
C5_Witness ==
    \E t \in DOMAIN txs :
        /\ txs[t].op = "checkpoint" /\ txs[t].pc = "aborted"
        /\ txs[t].deleted # {}
        /\ txs[t].deleted \subseteq DOMAIN history
        /\ blocks[txs[t].block_id].version = txs[t].versions[txs[t].block_id]

(* ---------------------------------------------------------------------- *)
(* Properties of the listing                                               *)
(* ---------------------------------------------------------------------- *)
\* the blocks that pass the filters of q other than the cursors
Filtered(q) ==
    {id \in DOMAIN blocks :
        /\ where_filters(blocks[id], q, Actor)
        /\ agent_count_filter(blocks_agents, id, q)
        /\ identities_filter(identities_blocks, id, q)}

\* block a is strictly beyond (greater) or strictly before block c in the
\* order of (created_at, id)
Beyond(a, c, greater) ==
    IF greater
    THEN \/ blocks[a].created_at > blocks[c].created_at
         \/ /\ blocks[a].created_at = blocks[c].created_at
            /\ IdRank(a) > IdRank(c)
    ELSE \/ blocks[a].created_at < blocks[c].created_at
         \/ /\ blocks[a].created_at = blocks[c].created_at
            /\ IdRank(a) < IdRank(c)

\* C6: a traversal by after cursors that has reached its empty page has
\* returned, page after page, exactly the filtered collection in the order
\* of (created_at, id) in the direction asked for.
C6_PaginationTotal ==
    pager.pc = "done"
        => pager.pages = Ordered(blocks, Filtered(pager.q), FALSE, pager.q.ascending)

\* C7: a call with one cursor that resolves, and no limit, returns exactly
\* the filtered blocks strictly beyond the cursor block (after) or strictly
\* before it (before) in the order of (created_at, id) in the direction
\* asked for.
C7_CursorPredicate ==
    (pager.pc = "single" /\ pager.q.limit = 0)
        => /\ pager.q.after \in DOMAIN blocks
                => Range(pager.result) =
                       {id \in Filtered(pager.q) :
                           Beyond(id, pager.q.after, pager.q.ascending)}
           /\ pager.q.before \in DOMAIN blocks
                => Range(pager.result) =
                       {id \in Filtered(pager.q) :
                           Beyond(id, pager.q.before, ~pager.q.ascending)}

(* ---------------------------------------------------------------------- *)
(* Properties of the value, the sequence numbers and the navigation        *)
(* ---------------------------------------------------------------------- *)
\* C11: in every committed state the value of every block is no longer
\* than the block's limit.
C11_ValueWithinLimit ==
    \A b \in DOMAIN blocks : Len(blocks[b].value) <= blocks[b].limit

SeqOrdered ==
    \A b \in DOMAIN blocks :
        \A h1, h2 \in Checkpoints(history, b) :
            (h1 < h2) <=> (history[h1].sequence_number < history[h2].sequence_number)

\* C13: a block's first checkpoint gets sequence number 1, every new
\* checkpoint the sequence number of the current checkpoint plus one, and in
\* every state the checkpoints of a block have distinct sequence numbers in
\* the order of their creation.
C13_SequenceNumbering ==
    /\ []SeqOrdered
    /\ [][\A b \in DOMAIN blocks :
             (Called("checkpoint", b) /\ next_history_id' # next_history_id)
                 => /\ next_history_id \in Checkpoints(history', b)
                    /\ next_history_id \notin DOMAIN history
                    /\ history'[next_history_id].sequence_number
                           = PointerSeq(blocks, history, b) + 1
                    /\ Checkpoints(history, b) = {}
                           => history'[next_history_id].sequence_number = 1]_vars

\* a checkpoint has just been taken one step below the top: the third row
\* made is number 2 and the second row made is gone
C13_Witness ==
    /\ last.op = "checkpoint" /\ last.result = OK
    /\ Checkpoints(history, last.block_id) = {1, 3}
    /\ history[1].sequence_number = 1
    /\ history[3].sequence_number = 2

\* C14: an undo that succeeds makes current the checkpoint with the largest
\* sequence number below the current one, a redo that succeeds the one with
\* the smallest above it, whatever numbers are missing in between; the
\* block gets that checkpoint's five fields and points at it.
C14_Navigation ==
    [][\A b \in DOMAIN blocks :
          LET new == blocks'[b].current_history_entry_id
              copied == \A f \in SnapshotFields : blocks'[b][f] = history[new][f]
          IN  /\ (Called("undo", b) /\ last'.result = OK)
                    => /\ new \in Below(blocks, history, b)
                       /\ \A h \in Below(blocks, history, b) :
                             history[h].sequence_number <= history[new].sequence_number
                       /\ copied
              /\ (Called("redo", b) /\ last'.result = OK)
                    => /\ new \in Above(blocks, history, b)
                       /\ \A h \in Above(blocks, history, b) :
                             history[h].sequence_number >= history[new].sequence_number
                       /\ copied
      ]_vars

\* an undo has gone from checkpoint 4 to checkpoint 2 over the missing 3,
\* with checkpoint 1 below
C14_Witness ==
    /\ last.op = "undo" /\ last.result = OK
    /\ {history[h].sequence_number : h \in Checkpoints(history, last.block_id)}
           = {1, 2, 4}
    /\ PointerSeq(blocks, history, last.block_id) = 2
    /\ blocks[last.block_id].version = 2

\* C15: no undo and no redo, whether it succeeds or fails, creates, deletes
\* or changes a checkpoint.
C15_HistoryUntouched ==
    [][last'.op \in {"undo", "redo"} => history' = history]_vars

\* a redo has succeeded to the last of three checkpoints, all still there
C15_Witness ==
    /\ last.op = "redo" /\ last.result = OK
    /\ Cardinality(Checkpoints(history, last.block_id)) = 3
    /\ PointerSeq(blocks, history, last.block_id) = 3

(* ---------------------------------------------------------------------- *)
(* Properties of the filters, the order and the cursors of the listing     *)
(* ---------------------------------------------------------------------- *)
\* the blocks of the actor's organization no agent is attached to
Unattached ==
    {b \in DOMAIN blocks :
        /\ blocks[b].organization_id = Actor.organization_id
        /\ \A l \in blocks_agents : l[1] # b}

\* the call made was one without cursor and limit, with the filters of f
ListedAll(f) ==
    /\ pager.pc # "idle"
    /\ pager.q.after = None /\ pager.q.before = None /\ pager.q.limit = 0
    /\ [pager.q EXCEPT !.ascending = TRUE] = f

\* C16: a listing with connected_to_agents_count_lt = 1, and one with
\* connected_to_agents_count_eq = [0], returns exactly the blocks no agent
\* is attached to.
C16_ZeroCountIncluded ==
    (\/ ListedAll([NoFilters EXCEPT !.connected_to_agents_count_lt = {1}])
     \/ ListedAll([NoFilters EXCEPT !.connected_to_agents_count_eq = {{0}}]))
        => Range(pager.result) = Unattached

\* over blocks with two, one and no agent, the listing with
\* connected_to_agents_count_lt = 1 has returned the block without agent
C16_Witness ==
    /\ ListedAll([NoFilters EXCEPT !.connected_to_agents_count_lt = {1}])
    /\ {agent_count(blocks_agents, b) : b \in DOMAIN blocks} = {0, 1, 2}
    /\ pager.result = <<AllBlockIds[3]>>

\* C17: a listing with a filter on the agent count or on the identities
\* returns no block twice and returns the blocks in the order of
\* (created_at, id) in the direction asked for.
C17_DistinctOrdered ==
    (pager.pc # "idle" /\ needs_distinct(pager.q))
        => /\ \A i, j \in DOMAIN pager.result :
                 i # j => pager.result[i] # pager.result[j]
           /\ \A i, j \in DOMAIN pager.result :
                 i < j => Beyond(pager.result[j], pager.result[i], pager.q.ascending)

\* what the call of the caller returns with other parameters
Relisted(q) ==
    get_blocks_async(blocks, blocks_agents, identities_blocks, database_engine,
                     Actor, q)

\* C18: a call whose after (or before) names no block returns what the
\* same call without that cursor returns.
C18_LenientCursor ==
    pager.pc = "single"
        => /\ (pager.q.after # None /\ pager.q.after \notin DOMAIN blocks)
                 => pager.result = Relisted([pager.q EXCEPT !.after = None])
           /\ (pager.q.before # None /\ pager.q.before \notin DOMAIN blocks)
                 => pager.result = Relisted([pager.q EXCEPT !.before = None])

\* a call with an after that names no block has returned both blocks
C18_Witness ==
    /\ pager.pc = "single"
    /\ pager.q.after # None /\ pager.q.after \notin DOMAIN blocks
    /\ Len(pager.result) = 2

\* C19: when a traversal ends while other callers created and deleted
\* blocks between its fetches, every block that was there throughout and
\* passes the filters is in the pages exactly once, and the pages taken
\* together are in the order of (created_at, id) in the direction asked for.
C19_StableUnderWrites ==
    pager.pc = "done"
        => /\ \A b \in (DOMAIN blocks \cap StartingIds) \cap Filtered(pager.q) :
                 Cardinality({i \in DOMAIN pager.pages : pager.pages[i] = b}) = 1
           /\ \A i, j \in DOMAIN pager.pages :
                 (i < j /\ {pager.pages[i], pager.pages[j]} \subseteq DOMAIN blocks)
                     => Beyond(pager.pages[j], pager.pages[i], pager.q.ascending)

C21_BulkBypassesHistory ==
    [][last'.op = "bulk_update"
          => /\ history' = history
             /\ next_history_id' = next_history_id
             /\ DOMAIN blocks' = DOMAIN blocks
             /\ \A b \in DOMAIN blocks :
                   /\ \A f \in DOMAIN blocks[b] \ {"value", "version"} :
                         blocks'[b][f] = blocks[b][f]
                   /\ b \notin DOMAIN last'.updates => blocks'[b] = blocks[b]]_vars

\* a bulk update has given a new value to a block that has two checkpoints
\* and points at the second; the value is no longer the checkpoint's
C21_Witness ==
    /\ last.op = "bulk_update"
    /\ AllBlockIds[1] \in DOMAIN last.updates
    /\ Cardinality(Checkpoints(history, AllBlockIds[1])) = 2
    /\ PointerSeq(blocks, history, AllBlockIds[1]) = 2
    /\ blocks[AllBlockIds[1]].value
          # history[blocks[AllBlockIds[1]].current_history_entry_id].value

(* ---------------------------------------------------------------------- *)
(* Properties across blocks                                                *)
(* ---------------------------------------------------------------------- *)
\* the errors a session meets only when the rows it read have changed
OvertakenError ==
    {ErrStale, ErrHistoryRowNotFound, ErrTargetNotFound, ErrMultipleRows}

\* C22: the commit of a checkpoint, undo or redo on one block changes no
\* other block and no checkpoint of another block, and such a session is
\* overtaken only by a committed session that had loaded the same block.
C22_BlocksIndependent ==
    [][\A t \in DOMAIN txs :
          (IsOpen(txs[t]) /\ txs[t].op \in HistoryOps)
              => /\ txs'[t].pc = "committed"
                    => \A b \in DOMAIN blocks \ {txs[t].block_id} :
                          /\ blocks'[b] = blocks[b]
                          /\ Checkpoints(history', b) = Checkpoints(history, b)
                          /\ \A h \in Checkpoints(history, b) : history'[h] = history[h]
                 /\ (txs'[t].pc = "failed" /\ txs'[t].result \in OvertakenError)
                    => \E u \in DOMAIN txs \ {t} :
                          /\ txs[u].pc = "committed"
                          /\ txs[t].block_id \in DOMAIN txs[u].versions
      ]_vars

\* a checkpoint on the first block and a checkpoint on the second block,
\* open at the same time, have both committed
C22_Witness ==
    /\ Len(txs) = 2
    /\ \A t \in DOMAIN txs : txs[t].pc = "committed" /\ txs[t].op = "checkpoint"
    /\ txs[1].block_id # txs[2].block_id
    /\ txs[1].created # {} /\ txs[2].created # {}
    /\ \E h \in txs[1].created : \A g \in txs[2].created : g < h

\* C23: once a block is deleted the store holds no checkpoint of it and no
\* row of BlocksAgents that names it.
C23_DeleteCascade ==
    [][(last'.op = "delete" /\ last'.result = OK)
          => /\ last'.block_id \in DOMAIN blocks
             /\ last'.block_id \notin DOMAIN blocks'
             /\ Checkpoints(history', last'.block_id) = {}
             /\ \A l \in blocks_agents' : l[1] # last'.block_id
             /\ \A b \in DOMAIN blocks' :
                   /\ blocks'[b] = blocks[b]
                   /\ RowsOf(history', b) = RowsOf(history, b)
                   /\ agent_count(blocks_agents', b) = agent_count(blocks_agents, b)
      ]_vars

\* the first block, which had checkpoints and two agents, has been deleted;
\* the second block keeps its checkpoint and its agent
C23_Witness ==
    /\ last.op = "delete" /\ last.result = OK /\ last.block_id = AllBlockIds[1]
    /\ next_history_id = 4
    /\ Cardinality(DOMAIN history) = 1
    /\ Checkpoints(history, AllBlockIds[2]) # {}
    /\ blocks_agents = {<<AllBlockIds[2], "agent-1">>}

(* ---------------------------------------------------------------------- *)
(* Properties of the checkpoint's record of its actor                      *)
(* ---------------------------------------------------------------------- *)
\* C25: the checkpoint a call makes names the agent, as an agent, when the
\* call was given an agent_id, and the user, as a user, when it was not.
C25_ActorTagging ==
    [][(last'.op = "checkpoint" /\ last'.result = OK)
          => LET row == history'[blocks'[last'.block_id].current_history_entry_id]
             IN  /\ blocks'[last'.block_id].current_history_entry_id \notin DOMAIN history
                 /\ IF last'.agent_id # None
                    THEN row.actor_type = LETTA_AGENT /\ row.actor_id = last'.agent_id
                    ELSE row.actor_type = LETTA_USER /\ row.actor_id = Actor.id
      ]_vars

\* a block has a checkpoint taken by the user and above it one taken by an
\* agent
C25_Witness ==
    /\ last.op = "checkpoint" /\ last.agent_id = "agent-1"
    /\ \E h1, h2 \in Checkpoints(history, last.block_id) :
          /\ h1 < h2
          /\ history[h1].actor_type = LETTA_USER /\ history[h1].actor_id = Actor.id
          /\ history[h2].actor_type = LETTA_AGENT /\ history[h2].actor_id = "agent-1"

(* ---------------------------------------------------------------------- *)
(* Properties of the composition of the filters                            *)
(* ---------------------------------------------------------------------- *)
\* the number of agents attached to a block, 0 when it has none
Attached(b) == Cardinality({l \in blocks_agents : l[1] = b})

\* the count of block b passes every threshold q supplies
SatisfiesThresholds(b, q) ==
    /\ \A gt \in q.connected_to_agents_count_gt : Attached(b) > gt
    /\ \A lt \in q.connected_to_agents_count_lt : Attached(b) < lt
    /\ \A eq \in q.connected_to_agents_count_eq : Attached(b) \in eq

\* block b passes every predicate on its columns q supplies
SatisfiesColumns(b, q) ==
    /\ blocks[b].organization_id = Actor.organization_id
    /\ q.label # <<>> => blocks[b].label = q.label
    /\ \A t \in q.is_template : blocks[b].is_template = t
    /\ q.template_name # None => blocks[b].template_name = q.template_name
    /\ q.project_id # None => blocks[b].project_id = q.project_id
    /\ q.label_search # <<>> => ilike(blocks[b].label, q.label_search)
    /\ q.description_search # <<>> => ilike(blocks[b].description, q.description_search)
    /\ q.value_search # <<>> => ilike(blocks[b].value, q.value_search)

\* the call made was one without cursor and limit
ListedUnbounded ==
    /\ pager.pc # "idle"
    /\ pager.q.after = None /\ pager.q.before = None /\ pager.q.limit = 0

\* C24: a listing without cursor and limit returns exactly the blocks that
\* pass every filter it was given at once: the label, is_template,
\* template_name, project_id, the three searches and the thresholds on the
\* agent count, label and label_search together included.
C24_FilterComposition ==
    ListedUnbounded
        => Range(pager.result) =
               {b \in DOMAIN blocks :
                   /\ SatisfiesColumns(b, pager.q)
                   /\ SatisfiesThresholds(b, pager.q)
                   /\ identities_filter(identities_blocks, b, pager.q)}

\* C29: a listing without cursor and limit that is given thresholds on the
\* agent count returns exactly the blocks whose count, 0 for a block
\* without agents, is above gt, below lt and in eq for each one given.
C29_AggregateThresholds ==
    (ListedUnbounded /\ needs_agent_count_join(pager.q))
        => Range(pager.result) =
               {b \in DOMAIN blocks :
                   /\ where_filters(blocks[b], pager.q, Actor)
                   /\ SatisfiesThresholds(b, pager.q)}

(* ---------------------------------------------------------------------- *)
(* Properties of the stack of checkpoints                                  *)
(* ---------------------------------------------------------------------- *)
\* the sequence numbers of the checkpoints of block b
SeqsOf(hist, b) == {hist[h].sequence_number : h \in Checkpoints(hist, b)}

\* the n checkpoints of every block are numbered 1..n
Contiguous ==
    \A b \in DOMAIN blocks :
        SeqsOf(history, b) = 1..Cardinality(Checkpoints(history, b))

\* C27: in every state the sequence numbers of a block's checkpoints are
\* exactly 1..n, and a checkpoint taken while sequence number s is current
\* (0 without a current checkpoint) leaves the block with s+1 checkpoints.
C27_ContiguousStack ==
    /\ []Contiguous
    /\ [][\A b \in DOMAIN blocks :
             (Called("checkpoint", b) /\ last'.result = OK)
                 => Cardinality(Checkpoints(history', b))
                        = PointerSeq(blocks, history, b) + 1]_vars

\* a checkpoint taken after an undo has replaced the top of the stack: two
\* checkpoints numbered 1 and 2 are left of the three that were made
C27_Witness ==
    /\ last.op = "checkpoint" /\ last.result = OK
    /\ next_history_id = 4
    /\ Cardinality(Checkpoints(history, last.block_id)) = 2
    /\ SeqsOf(history, last.block_id) = {1, 2}
    /\ PointerSeq(blocks, history, last.block_id) = 2

(* ---------------------------------------------------------------------- *)
(* Properties of an undo and a redo that follow each other                 *)
(* ---------------------------------------------------------------------- *)
\* the five fields of a block or of a checkpoint
Fields(r) == [f \in SnapshotFields |-> r[f]]

\* what the redo, and the undo, called next on block b would write
RedoNext(b) == RedoWrites(history', b, blocks'[b])
UndoNext(b) == UndoWrites(history', b, blocks'[b])

\* the call of this step was op on block b and it committed
Committed(op, b) == Called(op, b) /\ last'.result = OK

\* the call that follows has succeeded and has put the pointer back where
\* it was before this step, with the fields of the checkpoint it names
BackAtCheckpoint(b, next) ==
    /\ next.result = OK
    /\ next.block.current_history_entry_id = blocks[b].current_history_entry_id
    /\ Fields(next.block) = Fields(history[blocks[b].current_history_entry_id])

\* the call that follows has succeeded and has put the pointer and the
\* fields back to what they were before this step
BackExactly(b, next) ==
    /\ next.result = OK
    /\ next.block.current_history_entry_id = blocks[b].current_history_entry_id
    /\ Fields(next.block) = Fields(blocks[b])

\* C28, as amended: after an undo that succeeds, a redo called next
\* succeeds and restores current_history_entry_id and the fields of the
\* checkpoint it names, which are the block's fields before the undo when
\* the block had not been edited since that checkpoint became current;
\* the same for an undo called after a redo that succeeds.
C28_RoundTrip ==
    [][\A b \in DOMAIN blocks :
          /\ Committed("undo", b)
                => /\ BackAtCheckpoint(b, RedoNext(b))
                   /\ AtCheckpoint(blocks, history, b) => BackExactly(b, RedoNext(b))
          /\ Committed("redo", b)
                => /\ BackAtCheckpoint(b, UndoNext(b))
                   /\ AtCheckpoint(blocks, history, b) => BackExactly(b, UndoNext(b))
      ]_vars

\* C28, as claimed: after an undo that succeeds, a redo called next
\* succeeds and restores the block's fields and current_history_entry_id
\* to what they were before the undo; the same for an undo after a redo.
C28_RoundTripExact ==
    [][\A b \in DOMAIN blocks :
          /\ Committed("undo", b) => BackExactly(b, RedoNext(b))
          /\ Committed("redo", b) => BackExactly(b, UndoNext(b))
      ]_vars

\* an undo has moved a block from its third checkpoint to the second, which
\* differs from the third, and the redo from here leads back to the third
C28_Witness ==
    /\ last.op = "undo" /\ last.result = OK
    /\ PointerSeq(blocks, history, last.block_id) = 2
    /\ LET next == RedoWrites(history, last.block_id, blocks[last.block_id])
       IN  /\ next.result = OK
           /\ history[next.block.current_history_entry_id].sequence_number = 3
           /\ Fields(next.block) # Fields(blocks[last.block_id])

(* ---------------------------------------------------------------------- *)
(* Properties of the calls that pass use_preloaded_block                   *)
(* ---------------------------------------------------------------------- *)
\* the call of this step was given a row older than the row stored
StalePreloaded ==
    /\ "use_preloaded_block" \in DOMAIN last'
    /\ last'.use_preloaded_block.version < blocks[last'.block_id].version

Matching(q) ==
    Ordered(blocks,
            {id \in Filtered(q) :
                /\ q.after \in DOMAIN blocks => Beyond(id, q.after, q.ascending)
                /\ q.before \in DOMAIN blocks => Beyond(id, q.before, ~q.ascending)},
            FALSE, q.ascending)

\* the first k elements of a sequence, all of them when it has fewer
FirstOf(rows, k) == SubSeq(rows, 1, IF k < Len(rows) THEN k ELSE Len(rows))

\* C30: a listing with limit k >= 1 returns the first min(k, m) of the m
\* blocks that match its filters and cursor, in the order asked for; with
\* limit 0 it returns all m.
C30_PageSize ==
    pager.pc # "idle"
        => pager.result = IF pager.q.limit = 0
                          THEN Matching(pager.q)
                          ELSE FirstOf(Matching(pager.q), pager.q.limit)

====
